---------------------------- MODULE Spec2Model ----------------------------
(***************************************************************************)
(* A model of interactive-parse (src/src/lib.rs): the recursive schema     *)
(* interpreter parse_schema / parse_schema_inner with its collection       *)
(* builders get_object and get_array (recurse_loop), the Undo protocol on  *)
(* the shared depth counter, and the terminal line accounting of           *)
(* clear_lines.  The Rust call stack is an explicit sequence of frames;    *)
(* the user is the environment, answering or skipping each prompt.         *)
(***************************************************************************)
EXTENDS Integers, Sequences, FiniteSets, TLC

(***************************************************************************)
(* Bounds of the model.                                                    *)
(***************************************************************************)
\* The user skips at most this many prompts in one build.
MaxSkips == 2
\* The user answers "yes" to "Add element?" for at most this many elements
\* of one array beyond its minimum.
MaxElems == 2
\* The call stack holds at most this many frames.
MaxStack == 40
\* A scalar prompt is answered with one of 1..MaxAnswer.
MaxAnswer == 2

\* The width of Cell<u16>: depth arithmetic is modulo 2^16.
U16 == 65536

Answers == 1..MaxAnswer

(***************************************************************************)
(* Option<T>: None is the empty set, Some(x) is {x}.                       *)
(***************************************************************************)
None == {}
Some(x) == {x}
UnwrapOrDefault(o) == IF o = {} THEN 0 ELSE CHOOSE x \in o : TRUE

(***************************************************************************)
(* serde_json::Value, and the intermediate results of the helpers.         *)
(***************************************************************************)
NoVal == [t |-> "none", v |-> <<>>]
VNull == [t |-> "Null", v |-> <<>>]
\* A serde_json Number keeps whether it came from an i64 or an f64.
VNumber(k, a) == [t |-> "Number", v |-> <<k, a>>]
\* A string typed by the user, and a string literal of the schema.
VString(a) == [t |-> "String", v |-> <<"text", a>>]
VLiteral(x) == [t |-> "String", v |-> <<"enum", x>>]
VBool(a) == [t |-> "Bool", v |-> <<a>>]
VArray(items) == [t |-> "Array", v |-> items]
VObject(entries) == [t |-> "Object", v |-> entries]
\* Vec<T> returned by recurse_loop, before get_array wraps it.
VVec(items) == [t |-> "Vec", v |-> items]
\* The answer of a Confirm prompt (1 is yes, 0 is no).
VConfirm(a) == [t |-> "confirm", v |-> <<a>>]
\* The option a Select returns.
VOption(label) == [t |-> "option", v |-> <<label>>]
\* RecurseLoop::Continue(item) and RecurseLoop::Return(None).
RLContinue(item) == [t |-> "Continue", v |-> <<item>>]
RLReturnNone == [t |-> "Return", v |-> <<>>]

(***************************************************************************)
(* SchemaResult<T>.                                                        *)
(***************************************************************************)
NoRet == [tag |-> "none", val |-> NoVal, depth |-> 0]
Ok(val) == [tag |-> "Ok", val |-> val, depth |-> 0]
ErrUndo(d) == [tag |-> "Undo", val |-> NoVal, depth |-> d]
\* Err(e) for an error e that is not Undo.
Err(e) == [tag |-> "Err", val |-> [t |-> e, v |-> <<>>], depth |-> 0]
\* The thread panics: no value is returned to anyone.
Panicked(msg) == [tag |-> "Panic", val |-> [t |-> msg, v |-> <<>>], depth |-> 0]

(***************************************************************************)
(* The schemas of the model: SchemaObject nodes by id.  A node has its     *)
(* instance_type (it: a single type, "Vec" with the non-null type in       *)
(* inner, or "None"), its ObjectValidation (object: the properties in the  *)
(* order of the map), its ArrayValidation (item for SingleOrVec::Single,   *)
(* vec for SingleOrVec::Vec, min, max), its reference, its                 *)
(* SubschemaValidation (oneOf, allOf, anyOf), its metadata (meta: the      *)
(* title, itself optional) and its enum_values.  Schema::Bool is a node    *)
(* whose it is "Bool".                                                     *)
(***************************************************************************)
Base ==
    [it |-> "None", inner |-> "None", object |-> None, array |-> FALSE,
     item |-> 0, vec |-> None, min |-> None, max |-> None, ref |-> None,
     oneOf |-> None, allOf |-> None, anyOf |-> None,
     meta |-> None, enum |-> None]

Leaf(t) == [Base EXCEPT !.it = t]
Obj(props) == [Base EXCEPT !.it = "Object", !.object = Some(props)]
Arr(item, min, max) ==
    [Base EXCEPT !.it = "Array", !.array = TRUE, !.item = item,
                 !.min = min, !.max = max]
\* An array with a list of item schemas (a tuple).
ArrVec(list, min, max) ==
    [Base EXCEPT !.it = "Array", !.array = TRUE, !.vec = Some(list),
                 !.min = min, !.max = max]
\* Schema::Bool(_)
SchemaBool == [Base EXCEPT !.it = "Bool"]
\* Option<T> of a scalar: instance_type [T, Null].
Opt(t) == [Base EXCEPT !.it = "Vec", !.inner = t]
Ref(name) == [Base EXCEPT !.ref = Some(name)]
OneOf(subs) == [Base EXCEPT !.oneOf = Some(subs)]
AllOf(subs) == [Base EXCEPT !.allOf = Some(subs)]
AnyOf(subs) == [Base EXCEPT !.anyOf = Some(subs)]
\* A unit variant of an enum: a string with one enumerated value.
Unit(lit) == [Base EXCEPT !.it = "String", !.enum = Some(<<lit>>)]
\* A struct variant of an enum, with its metadata.
Variant(props, title) ==
    [Base EXCEPT !.it = "Object", !.object = Some(props), !.meta = Some(title)]

Schemas ==
    <<  Leaf("Integer"),                                   \* 1
        Leaf("String"),                                    \* 2
        Obj(<< <<"a", 1>>, <<"b", 2>>, <<"c", 1>> >>),     \* 3
        Arr(9, Some(1), Some(1)),                          \* 4
        Arr(9, Some(1), None),                             \* 5
        Obj(<< <<"x", 9>>, <<"y", 9>> >>),                 \* 6
        Arr(6, None, None),                                \* 7
        Obj(<< <<"v", 5>>, <<"w", 1>> >>),                 \* 8
        Leaf("Boolean"),                                   \* 9
        Leaf("Number"),                                    \* 10
        Obj(<< <<"d", 6>>, <<"f", 9>>, <<"g", 10>> >>),    \* 11
        Arr(1, None, Some(0)),                             \* 12
        Opt("Integer"),                                    \* 13
        Leaf("Null"),                                      \* 14
        AnyOf(<<14, 19>>),                                 \* 15
        Obj(<< <<"p", 13>>, <<"q", 15>>, <<"r", 19>> >>),  \* 16
        Variant(<< <<"S", 6>> >>, Some("S")),              \* 17
        Unit("A"),                                         \* 18
        Ref("D"),                                          \* 19
        OneOf(<<18, 17>>),                                 \* 20
        AllOf(<<9, 13>>),                                  \* 21
        Variant(<< <<"e", 20>>, <<"m", 21>> >>, Some("T")), \* 22
        AllOf(<<19>>),                                     \* 23
        Arr(23, None, None),                               \* 24
        Arr(9, Some(1), Some(3)),                          \* 25
        ArrVec(<<1, 13>>, Some(2), Some(2)),               \* 26
        ArrVec(<<9>>, None, None),                         \* 27
        Unit("B"),                                         \* 28
        OneOf(<<18, 28>>),                                 \* 29
        AllOf(<<9, 1>>),                                   \* 30
        SchemaBool,                                        \* 31
        Obj(<< <<"a", 9>>, <<"z", 31>> >>),                \* 32
        Arr(31, None, None),                               \* 33
        AllOf(<<9, 31>>),                                  \* 34
        Ref("Z"),                                          \* 35
        Base,                                              \* 36
        OneOf(<<17, 2>>),                                  \* 37
        Ref("Missing"),                                    \* 38
        Ref("A"),                                          \* 39
        Ref("B"),                                          \* 40
        Obj(<< <<"a", 9>>, <<"m", 36>> >>),                \* 41
        Obj(<< <<"a", 9>>, <<"u", 38>> >>),                \* 42
        ArrVec(<<9, 31>>, Some(1), Some(2)),               \* 43
        Obj(<< <<"e", 12>>, <<"f", 9>>, <<"l", 46>> >>),   \* 44
        Obj(<< <<"a", 9>>, <<"o", 44>> >>),                \* 45
        ArrVec(<<9>>, Some(1), Some(1))                    \* 46
    >>

\* definitions: &BTreeMap<String, Schema>
Definitions == [D |-> 9, Z |-> 31, A |-> 40, B |-> 39]

Roots ==
    {1, 3, 4, 5, 7, 8, 11, 12, 16, 22, 24, 25, 26, 27, 29, 30, 32, 33, 34, 35,
     37, 39, 41, 42, 43, 44, 45}

ScalarTypes == {"String", "Number", "Integer", "Boolean"}

VARIABLES
    stack,      \* the call stack, innermost frame last
    ret,        \* the SchemaResult being returned to the innermost frame
    depth,      \* current_depth: &Cell<u16>
    lines,      \* prompt lines on the terminal
    erases,     \* the number of clear_lines calls so far
    root,       \* the schema of this build
    mode,       \* "free": any answer; "redo": a re-asked prompt gets its old answer
    tape,       \* tape[k]: the answer of the k-th committed prompt
    asked,      \* asked[k]: the prompt presented at position k
    reask,      \* after a rewind: the prompts first asked at the restored position
    skips,      \* prompts skipped so far
    lastSkip,   \* depth at the last skip not yet followed by an answer, or -1
    skipStack   \* the call stack at that skip, or <<>>

vars ==
    <<stack, ret, depth, lines, erases, root, mode, tape, asked, reask, skips,
      lastSkip, skipStack>>

(***************************************************************************)
(* Frames.                                                                 *)
(***************************************************************************)
Frame(fn, pc, node, name, title, cp, i, items) ==
    [fn |-> fn, pc |-> pc, node |-> node, name |-> name, title |-> title,
     cp |-> cp, i |-> i, items |-> items]

\* A call of parse_schema: the checkpoint is read on entry (lib.rs line 30).
PSFrame(node, name, title, d) ==
    Frame("parse_schema", "inner", node, name, title, d, 0, <<>>)

PromptFrame(kind, node, name, title, i) ==
    Frame("prompt", kind, node, name, title, 0, i, <<>>)

Top == stack[Len(stack)]
Pop == SubSeq(stack, 1, Len(stack) - 1)
SetTop(f) == [stack EXCEPT ![Len(stack)] = f]
Running == Len(stack) > 0
Done == Len(stack) = 0
PromptPresented == Running /\ Top.fn = "prompt"
PromptId(f) == [kind |-> f.pc, node |-> f.node, name |-> f.name, i |-> f.i]


(***************************************************************************)
(* The Undo trait (impl Undo for Option<T>) and the rewind decisions.      *)
(***************************************************************************)
\* Mutant: a commit advances the depth by two.
UndoSome_Two(d) == (d + 2) % U16
\* Some(value): the prompt is committed and the depth advances.
UndoSome(d) == (d + 1) % U16
\* Mutant: the signal carries the depth of the prompt before the skipped one.
UndoNone_Below(d) == ErrUndo(IF d = 0 THEN 0 ELSE d - 1)
\* Mutant: the signal carries the depth the prompt would have committed.
UndoNone_Above(d) == ErrUndo(d + 1)
\* None: the prompt was skipped; the depth is left alone.
UndoNone(d) == ErrUndo(d)

\* Mutant: no special case for the zero checkpoint.
ShouldForward_NoZero(t, c) == t <= c
\* Mutant: a rewind to the checkpoint itself is absorbed too.
ShouldForward_Strict(t, c) == t < c /\ c # 0
\* parse_schema forwards Undo{depth} when depth <= depth_checkpoint and the
\* checkpoint is not zero.
ShouldForward(t, c) == t <= c /\ c # 0
\* Mutant: a checkpoint of 0 always absorbs, as in parse_schema.
LoopShouldAbsorb_ZeroCase(t, c) == t > c \/ c = 0
\* Mutant: recurse_loop absorbs a rewind to its own checkpoint too.
LoopShouldAbsorb_Geq(t, c) == t >= c
\* recurse_loop absorbs Undo{depth} when depth > depth_checkpoint.
LoopShouldAbsorb(t, c) == t > c
\* Mutant: the line of the skipped prompt is not counted.
EraseCount_Short(t, c) == (t - c) % U16
\* The argument of clear_lines: depth - depth_checkpoint + 1, in u16.
EraseCount(t, c) == (t - c + 1) % U16
\* clear_lines(n): the cursor moves up n lines and the screen below is cleared.
ClearLines(l, n) == l - n

(***************************************************************************)
(* Prompts.                                                                *)
(***************************************************************************)
ScalarPrompt(t) ==
    CASE t = "String" -> "get_string"
      [] t = "Number" -> "get_num"
      [] t = "Integer" -> "get_int"
      [] t = "Boolean" -> "get_bool"

\* The labels of the Select of a oneOf node: the first property name of a
\* variant with object validation, "None" for any other variant.
Label(n) ==
    IF Schemas[n].object # None
    THEN (CHOOSE props \in Schemas[n].object : TRUE)[1][1]
    ELSE "None"
Variants(n) == CHOOSE subs \in Schemas[n].oneOf : TRUE
Options(n) == [k \in 1..Len(Variants(n)) |-> Label(Variants(n)[k])]

\* The answers the user can give: a line of the menu for a Select, yes (1)
\* or no (0) for a Confirm or a bool, a value otherwise.
AnswerSet(kind, n) ==
    CASE kind = "select" -> 1..Len(Variants(n))
      [] kind \in {"get_bool", "add_element", "add_optional"} -> {0, 1}
      [] OTHER -> Answers

\* What the getter, the Confirm or the Select returns for answer a.
PromptValue(kind, n, a) ==
    CASE kind = "get_string" -> VString(a)
      [] kind = "get_int" -> VNumber("i64", a)
      [] kind = "get_num" -> VNumber("f64", a)
      [] kind = "get_bool" -> VBool(a)
      [] kind = "select" -> VOption(Options(n)[a])
      [] OTHER -> VConfirm(a)

\* In "redo" mode a prompt asked again at a position gets the answer it got before.
Allowed(kind, n) ==
    IF mode = "redo" /\ depth < Len(tape)
    THEN {tape[depth + 1]} \cap AnswerSet(kind, n)
    ELSE AnswerSet(kind, n)

\* parse_to_val: the title of the root schema's metadata, if it has one.
RootTitle(n) ==
    IF Schemas[n].meta # None THEN CHOOSE m \in Schemas[n].meta : TRUE ELSE None

\* parse_to_val calls parse_schema on the root schema, with an empty name,
\* at depth 0.
Init ==
    /\ root \in Roots
    /\ mode \in {"free", "redo"}
    /\ stack = <<PSFrame(root, "", RootTitle(root), 0)>>
    /\ ret = NoRet
    /\ depth = 0
    /\ lines = 0
    /\ erases = 0
    /\ tape = <<>>
    /\ asked = <<>>
    /\ reask = {}
    /\ skips = 0
    /\ lastSkip = -1
    /\ skipStack = <<>>

\* The records of the answers and prompts after position c are dropped when
\* the depth is reset to c; "redo" mode keeps the answers to give them again.
Forget(c) ==
    /\ tape' = IF mode = "redo" THEN tape ELSE SubSeq(tape, 1, c)
    /\ asked' = SubSeq(asked, 1, c)
    /\ reask' = IF c < Len(asked) THEN {asked[c + 1]} ELSE {}

Quiet ==
    UNCHANGED <<depth, lines, erases, root, mode, tape, asked, reask, skips, lastSkip,
                skipStack>>

\* prompt_skippable() returned Some(a); undo() commits it.
Answer ==
    /\ PromptPresented
    /\ ret.tag = "none"
    /\ \E a \in Allowed(Top.pc, Top.node) :
        /\ (Top.pc = "add_element" /\ a = 1) =>
                Top.i - UnwrapOrDefault(Schemas[Top.node].min) < MaxElems
        /\ ret' = Ok(PromptValue(Top.pc, Top.node, a))
        /\ tape' = Append(SubSeq(tape, 1, depth), a)
    /\ stack' = Pop
    /\ depth' = UndoSome(depth)
    /\ lines' = lines + 1
    /\ asked' = Append(SubSeq(asked, 1, depth), PromptId(Top))
    /\ reask' = {}
    /\ lastSkip' = -1
    /\ skipStack' = <<>>
    /\ UNCHANGED <<erases, root, mode, skips>>

\* prompt_skippable() returned None; undo() raises Undo at the current depth.
Skip ==
    /\ PromptPresented
    /\ ret.tag = "none"
    /\ skips < MaxSkips
    /\ stack' = Pop
    /\ ret' = UndoNone(depth)
    /\ lines' = lines + 1
    /\ asked' = Append(SubSeq(asked, 1, depth), PromptId(Top))
    /\ skips' = skips + 1
    /\ lastSkip' = depth
    /\ skipStack' = stack
    /\ UNCHANGED <<depth, erases, root, mode, tape, reask>>

(***************************************************************************)
(* parse_schema_inner and get_single_instance: the dispatch on the node.   *)
(***************************************************************************)
\* A result has come back to the innermost frame, which is fn at pc.
Returned(fn, pc) == Running /\ ret.tag # "none" /\ Top.fn = fn /\ Top.pc = pc

\* parse_schema_inner is entered: the match on schema.instance_type.
Entering == Running /\ ret.tag = "none" /\ Top.fn = "parse_schema" /\ Top.pc = "inner"
\* get_single_instance is called, for Single(instance_type) or, after the
\* Confirm of an optional value, for the type that is not Null.
Dispatching ==
    \/ Entering /\ Schemas[Top.node].it \notin {"Vec", "None"}
    \/ Running /\ ret.tag = "none" /\ Top.fn = "parse_schema_inner" /\ Top.pc = "gsi"
Inst == IF Top.fn = "parse_schema" THEN Schemas[Top.node].it ELSE Schemas[Top.node].inner
\* get_subschema is called: for a node with neither type nor reference, or
\* by get_single_instance for Null.
SubCalling ==
    \/ Entering /\ Schemas[Top.node].it = "None" /\ Schemas[Top.node].ref = None
    \/ Dispatching /\ Inst = "Null"

\* update_title: the title of the node's metadata when it has metadata.
UpdateTitle(title, n) ==
    IF Schemas[n].meta # None THEN CHOOSE m \in Schemas[n].meta : TRUE ELSE title

\* get_schema_object, get_schema_object_ref: Schema::Bool(_) is
\* Err(SchemaError::SchemaIsBool), Schema::Object(object) is Ok(object).
IsBool(n) == Schemas[n].it = "Bool"
SchemaIsBool == Err("SchemaIsBool")

\* A panic unwinds every frame of the build.
Panic(msg) ==
    /\ stack' = <<>>
    /\ ret' = Panicked(msg)
    /\ Quiet

\* prompt_skippable()? : the prompt fails (InquireError, but for a cancelled
\* prompt, which is a skip); nothing is committed.
PromptFail ==
    /\ PromptPresented
    /\ ret.tag = "none"
    /\ stack' = Pop
    /\ ret' = Err("Inquire")
    /\ lastSkip' = -1
    /\ skipStack' = <<>>
    /\ UNCHANGED <<depth, lines, erases, root, mode, tape, asked, reask, skips>>

\* get_string, get_num, get_int, get_bool: one prompt.
InnerScalar ==
    /\ Dispatching
    /\ Inst \in ScalarTypes
    /\ stack' = Append(SetTop([Top EXCEPT !.pc = "wait"]),
                       PromptFrame(ScalarPrompt(Inst), Top.node, Top.name, Top.title, 0))
    /\ UNCHANGED ret
    /\ Quiet

\* get_object: the properties are built in turn.
InnerObject ==
    /\ Dispatching
    /\ Inst = "Object"
    /\ stack' = Append(SetTop([Top EXCEPT !.pc = "wait"]),
                       Frame("get_object", "next", Top.node, Top.name, Top.title, 0, 1, <<>>))
    /\ UNCHANGED ret
    /\ Quiet

\* get_array: `array` is empty and recurse_loop starts at index 0, its
\* checkpoint read on entry (lib.rs line 553).
InnerArray ==
    /\ Dispatching
    /\ Inst = "Array"
    /\ stack' = SetTop([Top EXCEPT !.pc = "wait"])
                \o << Frame("get_array", "wait", Top.node, Top.name, Top.title, 0, 0, <<>>),
                      Frame("recurse_loop", "call", Top.node, Top.name, Top.title, depth, 0, <<>>) >>
    /\ UNCHANGED ret
    /\ Quiet

\* An optional value (instance_type is a list): Confirm "Add optional value?".
InnerOptional ==
    /\ Entering
    /\ Schemas[Top.node].it = "Vec"
    /\ Schemas[Top.node].inner # "None"
    /\ stack' = SetTop([Top EXCEPT !.pc = "wait"])
                \o << Frame("parse_schema_inner", "confirm", Top.node, Top.name, Top.title, 0, 0, <<>>),
                      PromptFrame("add_optional", Top.node, Top.name, Top.title, 0) >>
    /\ UNCHANGED ret
    /\ Quiet

\* Yes: get_single_instance for the type that is not Null.
OptionalYes ==
    /\ Returned("parse_schema_inner", "confirm")
    /\ ret.tag = "Ok" /\ ret.val = VConfirm(1)
    /\ stack' = SetTop([Top EXCEPT !.pc = "gsi"])
    /\ ret' = NoRet
    /\ Quiet

\* No: Ok(Value::Null).
OptionalNo ==
    /\ Returned("parse_schema_inner", "confirm")
    /\ ret.tag = "Ok" /\ ret.val = VConfirm(0)
    /\ stack' = Pop
    /\ ret' = Ok(VNull)
    /\ Quiet

\* A referenced type: parse_schema on the definition, its name as the title.
InnerRef ==
    /\ Entering
    /\ Schemas[Top.node].it = "None"
    /\ Len(stack) < MaxStack
    /\ \E reference \in Schemas[Top.node].ref :
        /\ reference \in DOMAIN Definitions
        /\ ~IsBool(Definitions[reference])
        /\ stack' = Append(SetTop([Top EXCEPT !.pc = "wait"]),
                           PSFrame(Definitions[reference], Top.name, Some(reference), depth))
    /\ UNCHANGED ret
    /\ Quiet

\* get_schema_object_ref(schema)? : the definition is Schema::Bool.
RefSchemaIsBool ==
    /\ Entering
    /\ Schemas[Top.node].it = "None"
    /\ \E reference \in Schemas[Top.node].ref :
        /\ reference \in DOMAIN Definitions
        /\ IsBool(Definitions[reference])
    /\ stack' = SetTop([Top EXCEPT !.pc = "wait"])
    /\ ret' = SchemaIsBool
    /\ Quiet

\* definitions.get(reference).unwrap() : the reference names no definition.
RefPanic ==
    /\ Entering
    /\ Schemas[Top.node].it = "None"
    /\ \E reference \in Schemas[Top.node].ref : reference \notin DOMAIN Definitions
    /\ Panic("unwrap on None")

\* The recursion through references has used up the stack.
StackOverflow ==
    /\ Entering
    /\ Schemas[Top.node].it = "None"
    /\ Len(stack) >= MaxStack
    /\ \E reference \in Schemas[Top.node].ref :
        /\ reference \in DOMAIN Definitions
        /\ ~IsBool(Definitions[reference])
    /\ Panic("stack overflow")

(***************************************************************************)
(* get_subschema.                                                          *)
(***************************************************************************)
SubFrame(pc, f, title, i) == Frame("get_subschema", pc, f.node, f.name, title, 0, i, <<>>)

\* The loop over the variants of one_of ends without a panic: every variant
\* is a Schema::Object, and one with object validation has a first property.
OneOfLabelled(n) ==
    \A k \in 1..Len(Variants(n)) :
        /\ ~IsBool(Variants(n)[k])
        /\ \A props \in Schemas[Variants(n)[k]].object : Len(props) > 0

\* The find of any_of ends without a panic: it meets a sub-schema that is
\* not Null, and no Schema::Bool before it.
AnyOfFound(n) ==
    \E subs \in Schemas[n].anyOf :
        \E k \in 1..Len(subs) :
            /\ Schemas[subs[k]].it \notin {"Null", "Bool"}
            /\ \A j \in 1..(k - 1) : Schemas[subs[j]].it = "Null"

\* one_of: the Select over the labels of the variants.
InnerOneOf ==
    /\ SubCalling
    /\ Schemas[Top.node].oneOf # None
    /\ OneOfLabelled(Top.node)
    /\ stack' = SetTop([Top EXCEPT !.pc = "wait"])
                \o << SubFrame("select", Top, Top.title, 0),
                      PromptFrame("select", Top.node, Top.name, Top.title, 0) >>
    /\ UNCHANGED ret
    /\ Quiet

\* options.iter().position(|x| x == &option): the first variant with the label.
Position(n, option) ==
    CHOOSE k \in 1..Len(Variants(n)) :
        /\ Options(n)[k] = option
        /\ \A j \in 1..(k - 1) : Options(n)[j] # option

\* The chosen variant has object validation: parse_schema on it.
SelectObject ==
    /\ Returned("get_subschema", "select")
    /\ ret.tag = "Ok"
    /\ LET v == Variants(Top.node)[Position(Top.node, ret.val.v[1])]
       IN  /\ Schemas[v].object # None
           /\ stack' = Append(SetTop([Top EXCEPT !.pc = "tail"]),
                              PSFrame(v, Top.name, UpdateTitle(Top.title, v), depth))
    /\ ret' = NoRet
    /\ Quiet

\* The chosen variant has enumerated values only: the first one is the value.
SelectEnum ==
    /\ Returned("get_subschema", "select")
    /\ ret.tag = "Ok"
    /\ LET v == Variants(Top.node)[Position(Top.node, ret.val.v[1])]
       IN  /\ Schemas[v].object = None
           /\ \E values \in Schemas[v].enum :
                /\ Len(values) > 0
                /\ ret' = Ok(VLiteral(values[1]))
    /\ stack' = Pop
    /\ Quiet

\* The chosen variant has neither object validation nor a first enumerated
\* value: panic!("invalid schema"), expect("invalid schema").
SelectPanic ==
    /\ Returned("get_subschema", "select")
    /\ ret.tag = "Ok"
    /\ LET v == Variants(Top.node)[Position(Top.node, ret.val.v[1])]
       IN  /\ Schemas[v].object = None
           /\ \A values \in Schemas[v].enum : Len(values) = 0
    /\ Panic("invalid schema")

AllOfSubs(n) == CHOOSE subs \in Schemas[n].allOf : TRUE

\* all_of: every sub-schema is built in turn, under the same name.
InnerAllOf ==
    /\ SubCalling
    /\ Schemas[Top.node].oneOf = None
    /\ Schemas[Top.node].allOf # None
    /\ stack' = Append(SetTop([Top EXCEPT !.pc = "wait"]), SubFrame("next", Top, Top.title, 1))
    /\ UNCHANGED ret
    /\ Quiet

AllOfNext ==
    /\ Running /\ ret.tag = "none"
    /\ Top.fn = "get_subschema" /\ Top.pc = "next"
    /\ Top.i <= Len(AllOfSubs(Top.node))
    /\ LET v == AllOfSubs(Top.node)[Top.i]
       IN  /\ ~IsBool(v)
           /\ stack' = Append(SetTop([Top EXCEPT !.pc = "wait"]),
                              PSFrame(v, Top.name, UpdateTitle(Top.title, v), depth))
    /\ UNCHANGED ret
    /\ Quiet

\* get_schema_object(schema)? : the sub-schema is Schema::Bool.
AllOfSchemaIsBool ==
    /\ Running /\ ret.tag = "none"
    /\ Top.fn = "get_subschema" /\ Top.pc = "next"
    /\ Top.i <= Len(AllOfSubs(Top.node))
    /\ IsBool(AllOfSubs(Top.node)[Top.i])
    /\ stack' = Pop
    /\ ret' = SchemaIsBool
    /\ Quiet

AllOfCollect ==
    /\ Returned("get_subschema", "wait")
    /\ ret.tag = "Ok"
    /\ stack' = SetTop([Top EXCEPT !.pc = "next", !.i = @ + 1, !.items = Append(@, ret.val)])
    /\ ret' = NoRet
    /\ Quiet

\* Mutant: a single value is wrapped in an array as well.
AllOfValue_Wrapped(values) == VArray(values)
\* match values.len() { 1 => Ok(values.pop().unwrap()), _ => Ok(Value::Array(values)) }
AllOfValue(values) == IF Len(values) = 1 THEN values[1] ELSE VArray(values)

AllOfDone ==
    /\ Running /\ ret.tag = "none"
    /\ Top.fn = "get_subschema" /\ Top.pc = "next"
    /\ Top.i > Len(AllOfSubs(Top.node))
    /\ stack' = Pop
    /\ ret' = Ok(AllOfValue(Top.items))
    /\ Quiet

\* Mutant: the first sub-schema, whatever its type.
NonNull_First(n) == (CHOOSE q \in Schemas[n].anyOf : TRUE)[1]
\* schema_vec.into_iter().find(..): the first sub-schema whose type is not Null.
NonNull(n) ==
    LET subs == CHOOSE q \in Schemas[n].anyOf : TRUE
        ks == {k \in 1..Len(subs) : Schemas[subs[k]].it # "Null"}
    IN  subs[CHOOSE k \in ks : \A j \in ks : k <= j]

\* any_of: Confirm "Add optional value?" for the sub-schema that is not Null.
InnerAnyOf ==
    /\ SubCalling
    /\ Schemas[Top.node].oneOf = None
    /\ Schemas[Top.node].allOf = None
    /\ Schemas[Top.node].anyOf # None
    /\ AnyOfFound(Top.node)
    /\ LET v == NonNull(Top.node)
           title == UpdateTitle(Top.title, v)
       IN  stack' = SetTop([Top EXCEPT !.pc = "wait"])
                    \o << SubFrame("confirm", Top, title, v),
                          PromptFrame("add_optional", Top.node, Top.name, title, 0) >>
    /\ UNCHANGED ret
    /\ Quiet

AnyOfYes ==
    /\ Returned("get_subschema", "confirm")
    /\ ret.tag = "Ok" /\ ret.val = VConfirm(1)
    /\ stack' = Append(SetTop([Top EXCEPT !.pc = "tail"]),
                       PSFrame(Top.i, Top.name, Top.title, depth))
    /\ ret' = NoRet
    /\ Quiet

AnyOfNo ==
    /\ Returned("get_subschema", "confirm")
    /\ ret.tag = "Ok" /\ ret.val = VConfirm(0)
    /\ stack' = Pop
    /\ ret' = Ok(VNull)
    /\ Quiet

\* The panics of the dispatch, before any prompt of the node: the unwrap of
\* the type that is not Null, subschema.unwrap(), the panics and unwraps of
\* the loops over the variants, and the final panic!("invalid schema") of a
\* node with none of one_of, all_of, any_of.
InvalidSchemaPanic ==
    /\ \/ /\ Entering
          /\ Schemas[Top.node].it = "Vec"
          /\ Schemas[Top.node].inner = "None"
       \/ /\ SubCalling
          /\ LET s == Schemas[Top.node]
             IN  \/ s.oneOf # None /\ ~OneOfLabelled(Top.node)
                 \/ s.oneOf = None /\ s.allOf = None /\ s.anyOf # None
                       /\ ~AnyOfFound(Top.node)
                 \/ s.oneOf = None /\ s.allOf = None /\ s.anyOf = None
    /\ Panic("invalid schema")

\* The value of the last call is the value of parse_schema_inner (after
\* get_single_instance) or of get_subschema (after parse_schema).
TailReturn ==
    /\ \/ Returned("parse_schema_inner", "wait")
       \/ Returned("get_subschema", "tail")
    /\ ret.tag = "Ok"
    /\ stack' = Pop
    /\ UNCHANGED ret
    /\ Quiet

(***************************************************************************)
(* parse_schema: the result of the inner attempt.                          *)
(***************************************************************************)
\* Ok(value) => Ok(value)
ParseSchemaOk ==
    /\ Returned("parse_schema", "wait")
    /\ ret.tag = "Ok"
    /\ stack' = Pop
    /\ UNCHANGED ret
    /\ Quiet

\* Mutant: any error is taken for a rewind.
Rewinds_AnyErr(r) == r.tag \in {"Undo", "Err"}
\* The pattern Err(SchemaError::Undo { depth }).
Rewinds(r) == r.tag = "Undo"

\* Err(e) => Err(e)
ParseSchemaErr ==
    /\ Returned("parse_schema", "wait")
    /\ ret.tag = "Err"
    /\ ~Rewinds(ret)
    /\ stack' = Pop
    /\ UNCHANGED ret
    /\ Quiet

\* Err(Undo{depth}), forwarded unchanged.
ParseSchemaForward ==
    /\ Returned("parse_schema", "wait")
    /\ Rewinds(ret)
    /\ ShouldForward(ret.depth, Top.cp)
    /\ stack' = Pop
    /\ UNCHANGED ret
    /\ Quiet

\* Mutant: the re-attempt loses the field name.
RetryFrame_NoName(f, d) == PSFrame(f.node, "", f.title, d)
\* The frame parse_schema re-attempts with after absorbing: the same schema,
\* name and title, its checkpoint the depth just restored.
RetryFrame(f, d) == PSFrame(f.node, f.name, f.title, d)

\* Err(Undo{depth}), absorbed: the depth is reset, the lines are cleared and
\* parse_schema calls itself with the same arguments.
ParseSchemaAbsorb ==
    /\ Returned("parse_schema", "wait")
    /\ Rewinds(ret)
    /\ ~ShouldForward(ret.depth, Top.cp)
    /\ depth' = Top.cp
    /\ erases' = erases + 1
    /\ lines' = ClearLines(lines, EraseCount(ret.depth, Top.cp))
    /\ stack' = Append(SetTop([Top EXCEPT !.pc = "tail"]), RetryFrame(Top, depth'))
    /\ ret' = NoRet
    /\ Forget(Top.cp)
    /\ UNCHANGED <<root, mode, skips, lastSkip, skipStack>>

\* The recursive call of parse_schema returned: its result is the frame's.
ParseSchemaTail ==
    /\ Returned("parse_schema", "tail")
    /\ stack' = Pop
    /\ UNCHANGED ret
    /\ Quiet

(***************************************************************************)
(* get_object.                                                             *)
(***************************************************************************)
\* Mutant: the iteration misses the last property.
Props_DropLast(f) ==
    LET props == CHOOSE q \in Schemas[f.node].object : TRUE
    IN  SubSeq(props, 1, Len(props) - 1)
\* object_info.unwrap().properties.into_iter(): the properties in the order
\* of the map.
Props(f) == CHOOSE props \in Schemas[f.node].object : TRUE

\* The next property: parse_schema(definitions, title, name, schema_object).
GetObjectNext ==
    /\ Running /\ ret.tag = "none"
    /\ Top.fn = "get_object" /\ Top.pc = "next"
    /\ Top.i <= Len(Props(Top))
    /\ ~IsBool(Props(Top)[Top.i][2])
    /\ stack' = Append(SetTop([Top EXCEPT !.pc = "wait"]),
                       PSFrame(Props(Top)[Top.i][2], Props(Top)[Top.i][1], Top.title, depth))
    /\ UNCHANGED ret
    /\ Quiet

\* get_schema_object(schema)? : the property's schema is Schema::Bool; the
\* collect ends with the error, which get_object returns.
GetObjectSchemaIsBool ==
    /\ Running /\ ret.tag = "none"
    /\ Top.fn = "get_object" /\ Top.pc = "next"
    /\ Top.i <= Len(Props(Top))
    /\ IsBool(Props(Top)[Top.i][2])
    /\ stack' = Pop
    /\ ret' = SchemaIsBool
    /\ Quiet

\* Ok((name, object)) is collected into the map.
GetObjectCollect ==
    /\ Returned("get_object", "wait")
    /\ ret.tag = "Ok"
    /\ stack' = SetTop([Top EXCEPT !.pc = "next", !.i = @ + 1,
                                   !.items = Append(@, <<Props(Top)[Top.i][1], ret.val>>)])
    /\ ret' = NoRet
    /\ Quiet

\* The iterator is exhausted: Ok(Value::Object(map)).
GetObjectDone ==
    /\ Running /\ ret.tag = "none"
    /\ Top.fn = "get_object" /\ Top.pc = "next"
    /\ Top.i > Len(Props(Top))
    /\ stack' = Pop
    /\ ret' = Ok(VObject(Top.items))
    /\ Quiet

(***************************************************************************)
(* get_array: the closure f(i) of a single item schema and of a list of    *)
(* item schemas, recurse_inner and recurse_loop.                           *)
(***************************************************************************)
\* format!("{}[{}]", name, i)
ElemName(name, i) == name \o "[" \o ToString(i) \o "]"
\* format!("{}.{}", name, i)
VecElemName(name, i) == name \o "." \o ToString(i)

\* SingleOrVec::Vec(schemas)
IsVec(f) == Schemas[f.node].vec # None
VecSchemas(f) == CHOOSE schemas \in Schemas[f.node].vec : TRUE

\* The local `array` of the get_array call the running closure belongs to:
\* the closure captures it by reference, and it is assigned only after
\* recurse_loop has returned (lib.rs lines 353-359).
ArrayLocal ==
    LET owners == {k \in 1..Len(stack) : stack[k].fn = "get_array"}
        k == CHOOSE m \in owners : \A n \in owners : n <= m
    IN  stack[k].items

\* Single: if let Some(end) = range.end { if array.len() == end as usize {..} }
\* Vec:    if let Some(end) = range.end { if i == end as usize {..} }
MaxReached(f) ==
    \E end \in Schemas[f.node].max :
        IF IsVec(f) THEN f.i = end ELSE Len(ArrayLocal) = end
\* schemas[i] is within the list.
InList(f) == IsVec(f) => f.i < Len(VecSchemas(f))
\* The schema of element i: *schema.clone(), or schemas[i].clone().
ElemSchema(f) == IF IsVec(f) THEN VecSchemas(f)[f.i + 1] ELSE Schemas[f.node].item
\* Mutant: the minimum is ignored.
Start_Zero(f) == 0
\* range.start.unwrap_or_default()
Start(f) == UnwrapOrDefault(Schemas[f.node].min)

ClosureFrame(f, pc) == Frame("closure", pc, f.node, f.name, f.title, 0, f.i, <<>>)
ElemFrame(f, d) ==
    PSFrame(ElemSchema(f),
            IF IsVec(f) THEN VecElemName(f.name, f.i) ELSE ElemName(f.name, f.i),
            f.title, d)
LoopFrame(f, i, items, d) == Frame("recurse_loop", "call", f.node, f.name, f.title, d, i, items)

LoopCalling == Running /\ ret.tag = "none" /\ Top.fn = "recurse_loop" /\ Top.pc = "call"

\* f(i) returns Return(None) at once: the maximum is reached.
ClosureMaxReached ==
    /\ LoopCalling
    /\ MaxReached(Top)
    /\ stack' = SetTop([Top EXCEPT !.pc = "f"])
    /\ ret' = Ok(RLReturnNone)
    /\ Quiet

\* f(i) of a list of item schemas, i past the list: schemas[i] panics.
ClosureIndexPanic ==
    /\ LoopCalling
    /\ ~MaxReached(Top)
    /\ ~InList(Top)
    /\ Panic("index out of bounds")

\* f(i) with i >= start: the Confirm "Add element?" is presented.
ClosureAsk ==
    /\ LoopCalling
    /\ ~MaxReached(Top)
    /\ InList(Top)
    /\ Top.i >= Start(Top)
    /\ stack' = SetTop([Top EXCEPT !.pc = "f"])
                \o << ClosureFrame(Top, "confirm"),
                      PromptFrame("add_element", Top.node, Top.name, Top.title, Top.i) >>
    /\ UNCHANGED ret
    /\ Quiet

\* f(i) with i < start: the element is built without asking.
ClosureBuild ==
    /\ LoopCalling
    /\ ~MaxReached(Top)
    /\ InList(Top)
    /\ Top.i < Start(Top)
    /\ ~IsBool(ElemSchema(Top))
    /\ stack' = SetTop([Top EXCEPT !.pc = "f"])
                \o << ClosureFrame(Top, "elem"), ElemFrame(Top, depth) >>
    /\ UNCHANGED ret
    /\ Quiet

\* "Add element?" answered yes: the element is built.
ClosureYes ==
    /\ Returned("closure", "confirm")
    /\ ret.tag = "Ok" /\ ret.val = VConfirm(1)
    /\ ~IsBool(ElemSchema(Top))
    /\ stack' = Append(SetTop([Top EXCEPT !.pc = "elem"]), ElemFrame(Top, depth))
    /\ ret' = NoRet
    /\ Quiet

\* get_schema_object(..)? in f(i): the schema of the element is
\* Schema::Bool, after "Add element?" was answered yes or was not asked.
ClosureSchemaIsBool ==
    /\ \/ /\ Returned("closure", "confirm")
          /\ ret.tag = "Ok" /\ ret.val = VConfirm(1)
          /\ IsBool(ElemSchema(Top))
          /\ stack' = Pop
       \/ /\ LoopCalling
          /\ ~MaxReached(Top)
          /\ InList(Top)
          /\ Top.i < Start(Top)
          /\ IsBool(ElemSchema(Top))
          /\ stack' = SetTop([Top EXCEPT !.pc = "f"])
    /\ ret' = SchemaIsBool
    /\ Quiet

\* "Add element?" answered no: Return(None).
ClosureNo ==
    /\ Returned("closure", "confirm")
    /\ ret.tag = "Ok" /\ ret.val = VConfirm(0)
    /\ stack' = Pop
    /\ ret' = Ok(RLReturnNone)
    /\ Quiet

\* The element is built: Continue(value).
ClosureElem ==
    /\ Returned("closure", "elem")
    /\ ret.tag = "Ok"
    /\ stack' = Pop
    /\ ret' = Ok(RLContinue(ret.val))
    /\ Quiet

\* recurse_inner, Ok(Continue(item)): the item is pushed and recurse_loop is
\* called for i + 1, its checkpoint read on entry.
RecurseInnerContinue ==
    /\ Returned("recurse_loop", "f")
    /\ ret.tag = "Ok" /\ ret.val.t = "Continue"
    /\ stack' = Append(SetTop([Top EXCEPT !.pc = "wait"]),
                       LoopFrame(Top, Top.i + 1, Append(Top.items, ret.val.v[1]), depth))
    /\ ret' = NoRet
    /\ Quiet

\* recurse_inner, Ok(Return(None)): Ok(items).
RecurseInnerReturn ==
    /\ Returned("recurse_loop", "f")
    /\ ret.tag = "Ok" /\ ret.val.t = "Return"
    /\ stack' = Pop
    /\ ret' = Ok(VVec(Top.items))
    /\ Quiet

\* Mutant: the re-attempt resumes at the index after the one it absorbed at.
LoopRetryFrame_Next(f, d) == LoopFrame(f, f.i + 1, f.items, d)
\* Mutant: the re-attempt keeps the item of the discarded attempt.
LoopRetryFrame_Patched(f, d) == LoopFrame(f, f.i, Append(f.items, VNull), d)
\* The frame recurse_loop re-attempts with after absorbing: the same index
\* and the items it was entered with.
LoopRetryFrame(f, d) == LoopFrame(f, f.i, f.items, d)

\* recurse_loop, Err(Undo{depth}) with depth > depth_checkpoint.
RecurseLoopAbsorb ==
    /\ Running /\ Top.fn = "recurse_loop" /\ Top.pc \in {"f", "wait"}
    /\ Rewinds(ret)
    /\ LoopShouldAbsorb(ret.depth, Top.cp)
    /\ depth' = Top.cp
    /\ erases' = erases + 1
    /\ lines' = ClearLines(lines, EraseCount(ret.depth, Top.cp))
    /\ stack' = Append(SetTop([Top EXCEPT !.pc = "tail"]), LoopRetryFrame(Top, depth'))
    /\ ret' = NoRet
    /\ Forget(Top.cp)
    /\ UNCHANGED <<root, mode, skips, lastSkip, skipStack>>

\* recurse_loop, Err(Undo{depth}) otherwise: bubbled up unchanged.
RecurseLoopBubble ==
    /\ Running /\ Top.fn = "recurse_loop" /\ Top.pc \in {"f", "wait"}
    /\ Rewinds(ret)
    /\ ~LoopShouldAbsorb(ret.depth, Top.cp)
    /\ stack' = Pop
    /\ UNCHANGED ret
    /\ Quiet

\* recurse_loop, `other => other`: the result of the next iteration or of
\* the re-attempt is the frame's.
RecurseLoopOther ==
    /\ Running /\ Top.fn = "recurse_loop" /\ ret.tag # "none"
    /\ \/ Top.pc = "tail"
       \/ Top.pc = "wait" /\ ret.tag = "Ok"
       \/ Top.pc \in {"f", "wait"} /\ ret.tag = "Err" /\ ~Rewinds(ret)
    /\ stack' = Pop
    /\ UNCHANGED ret
    /\ Quiet

\* get_array: array = recurse_loop(..)?; Ok(Value::Array(array))
GetArrayWrap ==
    /\ Returned("get_array", "wait")
    /\ ret.tag = "Ok"
    /\ stack' = Pop
    /\ ret' = Ok(VArray(ret.val.v))
    /\ Quiet

\* The `?` of get_object, of the closure, of get_array, of the Confirm of an
\* optional value and of get_subschema: an Err is returned to the caller as
\* it is.
QuestionMark ==
    /\ Running
    /\ Top.fn \in {"get_object", "closure", "get_array", "parse_schema_inner", "get_subschema"}
    /\ ret.tag \in {"Undo", "Err"}
    /\ stack' = Pop
    /\ UNCHANGED ret
    /\ Quiet

Next ==
    \/ Answer
    \/ Skip
    \/ InnerScalar
    \/ InnerObject
    \/ InnerArray
    \/ InnerOptional
    \/ OptionalYes
    \/ OptionalNo
    \/ InnerRef
    \/ InnerOneOf
    \/ SelectObject
    \/ SelectEnum
    \/ InnerAllOf
    \/ AllOfNext
    \/ AllOfCollect
    \/ AllOfDone
    \/ InnerAnyOf
    \/ AnyOfYes
    \/ AnyOfNo
    \/ TailReturn
    \/ ParseSchemaOk
    \/ ParseSchemaForward
    \/ ParseSchemaAbsorb
    \/ ParseSchemaTail
    \/ GetObjectNext
    \/ GetObjectCollect
    \/ GetObjectDone
    \/ ClosureMaxReached
    \/ ClosureAsk
    \/ ClosureBuild
    \/ ClosureYes
    \/ ClosureNo
    \/ ClosureElem
    \/ RecurseInnerContinue
    \/ RecurseInnerReturn
    \/ RecurseLoopAbsorb
    \/ RecurseLoopBubble
    \/ RecurseLoopOther
    \/ GetArrayWrap
    \/ QuestionMark
    \/ PromptFail
    \/ RefSchemaIsBool
    \/ RefPanic
    \/ StackOverflow
    \/ SelectPanic
    \/ AllOfSchemaIsBool
    \/ InvalidSchemaPanic
    \/ ParseSchemaErr
    \/ GetObjectSchemaIsBool
    \/ ClosureIndexPanic
    \/ ClosureSchemaIsBool

Spec == Init /\ [][Next]_vars

\* The build is one sequential computation: it takes its next step whenever
\* it has one, and a presented prompt comes back, with the next answer of the
\* script, a skip or a failure.
\* The answers are free: a script that repeats its answers after a
\* rewind is one of the free scripts.
LiveInit == Init /\ mode = "free"
LiveSpec == LiveInit /\ [][Next]_vars /\ WF_vars(Next)

(***************************************************************************)
(* The value of a build without skips, as a function of the answers: the   *)
(* same dispatch, read off the tape from position p on.                    *)
(***************************************************************************)
RECURSIVE Build(_, _), BuildInst(_, _, _), BuildSub(_, _), BuildAll(_, _, _, _),
          BuildProps(_, _, _, _), BuildElems(_, _, _, _)

\* parse_schema_inner on node n.
Build(n, p) ==
    LET s == Schemas[n]
    IN  CASE s.it = "Vec" ->
               IF tape[p + 1] = 1
               THEN BuildInst(n, s.inner, p + 1)
               ELSE [val |-> VNull, pos |-> p + 1]
          [] s.it = "None" /\ s.ref # None ->
               Build(Definitions[CHOOSE reference \in s.ref : TRUE], p)
          [] s.it = "None" /\ s.ref = None -> BuildSub(n, p)
          [] OTHER -> BuildInst(n, s.it, p)

\* get_single_instance on node n for instance type t.
BuildInst(n, t, p) ==
    CASE t \in ScalarTypes ->
           [val |-> PromptValue(ScalarPrompt(t), n, tape[p + 1]), pos |-> p + 1]
      [] t = "Object" -> BuildProps(n, 1, <<>>, p)
      [] t = "Array" -> BuildElems(n, 0, <<>>, p)
      [] t = "Null" -> BuildSub(n, p)

\* get_subschema on node n.
BuildSub(n, p) ==
    LET s == Schemas[n]
    IN  CASE s.oneOf # None ->
               LET v == Variants(n)[Position(n, Options(n)[tape[p + 1]])]
               IN  IF Schemas[v].object # None
                   THEN Build(v, p + 1)
                   ELSE [val |-> VLiteral((CHOOSE values \in Schemas[v].enum : TRUE)[1]),
                         pos |-> p + 1]
          [] s.oneOf = None /\ s.allOf # None -> BuildAll(n, 1, <<>>, p)
          [] OTHER ->
               IF tape[p + 1] = 1
               THEN Build(NonNull(n), p + 1)
               ELSE [val |-> VNull, pos |-> p + 1]

\* The all_of loop of get_subschema from sub-schema i on.
BuildAll(n, i, acc, p) ==
    IF i > Len(AllOfSubs(n))
    THEN [val |-> AllOfValue(acc), pos |-> p]
    ELSE LET r == Build(AllOfSubs(n)[i], p)
         IN  BuildAll(n, i + 1, Append(acc, r.val), r.pos)

\* get_object from property i on.
BuildProps(n, i, acc, p) ==
    LET props == CHOOSE q \in Schemas[n].object : TRUE
    IN  IF i > Len(props)
        THEN [val |-> VObject(acc), pos |-> p]
        ELSE LET r == Build(props[i][2], p)
             IN  BuildProps(n, i + 1, Append(acc, <<props[i][1], r.val>>), r.pos)

\* get_array from index i on; the closure's `array` is the empty local.
BuildElems(n, i, acc, p) ==
    LET s == Schemas[n]
        elem == IF s.vec # None THEN (CHOOSE schemas \in s.vec : TRUE)[i + 1] ELSE s.item
    IN  IF \E end \in s.max : IF s.vec # None THEN i = end ELSE Len(<<>>) = end
        THEN [val |-> VArray(acc), pos |-> p]
        ELSE IF i >= UnwrapOrDefault(s.min)
             THEN IF tape[p + 1] = 1
                  THEN LET r == Build(elem, p + 1)
                       IN  BuildElems(n, i + 1, Append(acc, r.val), r.pos)
                  ELSE [val |-> VArray(acc), pos |-> p + 1]
             ELSE LET r == Build(elem, p)
                  IN  BuildElems(n, i + 1, Append(acc, r.val), r.pos)

(***************************************************************************)
(* Properties.                                                             *)
(***************************************************************************)
\* The innermost frame that absorbed a rewind and waits for its re-attempt.
Absorber ==
    LET tails == {k \in 1..Len(stack) : stack[k].pc = "tail"}
    IN  stack[CHOOSE m \in tails : \A n \in tails : n <= m]
Absorbed == \E k \in 1..Len(stack) : stack[k].pc = "tail"
\* A prompt is presented and the last thing the user did was to skip.
AfterRewind == PromptPresented /\ ret.tag = "none" /\ lastSkip >= 0
\* The position on the stack of the innermost frame that absorbed.
AbsorberAt ==
    LET tails == {k \in 1..Len(stack) : stack[k].pc = "tail"}
    IN  CHOOSE m \in tails : \A n \in tails : n <= m
\* The get_object frames of skipStack that were collecting a property after
\* the first and whose property had committed nothing when the prompt was
\* skipped: the prompt was the first of that property. The frame below a
\* get_object frame is the parse_schema frame of the object.
FirstOfProperty ==
    {k \in 2..(Len(skipStack) - 1) :
        /\ skipStack[k].fn = "get_object" /\ skipStack[k].pc = "wait"
        /\ skipStack[k].i > 1
        /\ skipStack[k - 1].fn = "parse_schema"
        /\ skipStack[k + 1].fn = "parse_schema"
        /\ skipStack[k + 1].cp = lastSkip}
\* The frames of skipStack that were running iteration 0 of an array loop
\* and had committed nothing since their checkpoint when the prompt was
\* skipped: the prompt was the first of the iteration.
FirstOfLoop ==
    {k \in 1..Len(skipStack) :
        /\ skipStack[k].fn = "recurse_loop" /\ skipStack[k].pc = "f"
        /\ skipStack[k].i = 0 /\ skipStack[k].cp = lastSkip}

\* C1: a parse_schema frame with checkpoint c that receives Undo{depth: t}
\* with t > c or c = 0 sets the depth to c, calls clear_lines once, with
\* t - c + 1, and calls parse_schema again with the same schema, name and
\* title; whatever that call returns is what the frame returns.
C1_AbsorbRetries ==
    [][ /\ ( /\ Returned("parse_schema", "wait")
             /\ ret.tag = "Undo"
             /\ (ret.depth > Top.cp \/ Top.cp = 0) )
           => /\ depth' = Top.cp
              /\ erases' = erases + 1
              /\ lines' = lines - (ret.depth - Top.cp + 1)
              /\ Len(stack') = Len(stack) + 1
              /\ SubSeq(stack', 1, Len(stack) - 1) = Pop
              /\ stack'[Len(stack)] = [Top EXCEPT !.pc = "tail"]
              /\ stack'[Len(stack')] =
                    [Top EXCEPT !.pc = "inner", !.cp = Top.cp]
              /\ ret'.tag = "none"
        /\ Returned("parse_schema", "tail") => (stack' = Pop /\ ret' = ret)
      ]_vars

C1_Witness ==
    /\ Len(stack) >= 2
    /\ Top.fn = "parse_schema" /\ Top.pc = "inner"
    /\ stack[Len(stack) - 1].fn = "parse_schema"
    /\ stack[Len(stack) - 1].pc = "tail"
    /\ lastSkip > Top.cp
    /\ depth = Top.cp

\* C2: a parse_schema frame with checkpoint c # 0 that receives
\* Undo{depth: t} with t <= c returns the same Undo{depth: t}; the depth and
\* the terminal are left alone and nothing is attempted again.
C2_ForwardUnchanged ==
    [][ ( /\ Returned("parse_schema", "wait")
          /\ ret.tag = "Undo"
          /\ ret.depth <= Top.cp /\ Top.cp # 0 )
        => /\ stack' = Pop
           /\ ret' = ret
           /\ depth' = depth
           /\ lines' = lines
           /\ erases' = erases
      ]_vars

C2_Witness ==
    /\ Running /\ Top.fn = "get_object" /\ Top.pc = "wait"
    /\ ret.tag = "Undo" /\ ret.depth > 0
    /\ depth = ret.depth

\* C3 as stated: every skip discards and re-asks exactly the most recently
\* committed prompt: the prompt presented after a skip at depth t > 0 is
\* presented at depth t - 1.
C3_OneLevelAtATime == (AfterRewind /\ lastSkip > 0) => depth = lastSkip - 1

\* C3, amended: a skip at depth t is absorbed by an enclosing frame whose
\* checkpoint c is below t (or c = t = 0); the depth is c, the prompts
\* committed since c are discarded, those before c are kept, and the frame
\* asks again the prompt it first asked at position c + 1.
C3_RewindToCheckpoint ==
    AfterRewind =>
        /\ Absorbed
        /\ Absorber.fn \in {"parse_schema", "recurse_loop"}
        /\ depth = Absorber.cp
        /\ (depth < lastSkip \/ lastSkip = 0)
        /\ Len(asked) = depth
        /\ reask = {PromptId(Top)}

C3_Witness == AfterRewind /\ lastSkip - depth >= 2

\* C4: a build started at depth 0 never ends with Undo: every Undo raised
\* is absorbed by a frame of the traversal.
C4_NoUndoEscapes == Done => ret.tag # "Undo"

C4_Witness == Done /\ skips > 0 /\ ret.tag = "Ok"

\* C5 as stated: an Undo{depth: 0} that reaches the root frame ends the
\* build with an Aborted outcome.
C5_AbortedAtRoot ==
    [][ ( /\ Returned("parse_schema", "wait")
          /\ Len(stack) = 1
          /\ ret.tag = "Undo" /\ ret.depth = 0 )
        => (Done' /\ ret'.tag = "Aborted")
      ]_vars

\* C5, amended: a skip of the very first prompt does not end the build: a
\* parse_schema frame with checkpoint 0 absorbs it, the depth stays 0, the
\* one line is erased and the same prompt is presented again.
C5_FirstSkipAsksAgain ==
    lastSkip = 0 =>
        /\ Running
        /\ depth = 0
        /\ ret.tag = "none" =>
              /\ lines = 0
              /\ Absorbed /\ Absorber.fn = "parse_schema" /\ Absorber.cp = 0
              /\ PromptPresented => reask = {PromptId(Top)}

C5_Witness == PromptPresented /\ lastSkip = 0 /\ skips = MaxSkips

\* C6: the depth grows only by a committed prompt, and then by one (with no
\* skip the depth is the number of commits); it shrinks only to the
\* checkpoint of a frame that is active before and after; it is never negative.
C6_DepthAccounting ==
    /\ [](depth >= 0 /\ (skips = 0 => depth = Len(tape)))
    /\ [][ /\ Answer => depth' = depth + 1
           /\ depth' > depth => (Answer /\ depth' = depth + 1)
           /\ depth' < depth =>
                \E k \in 1..Len(stack) :
                    /\ stack[k].fn \in {"parse_schema", "recurse_loop"}
                    /\ stack[k].cp = depth'
                    /\ k <= Len(stack')
                    /\ stack'[k].fn = stack[k].fn /\ stack'[k].cp = depth'
         ]_vars

C6_Witness == PromptPresented /\ erases > 0 /\ depth >= 2 /\ lastSkip = -1

\* C7 as stated: after any skip the next prompt is presented at a depth at
\* least one below the depth of the skip.
C7_StrictDecrease == AfterRewind => depth <= lastSkip - 1

\* C7, amended: after a skip at depth t > 0 the next prompt is presented at
\* a depth of at most t - 1; after a skip at depth 0 it is presented at depth 0.
C7_DecreaseUnlessZero ==
    AfterRewind => IF lastSkip > 0 THEN depth <= lastSkip - 1 ELSE depth = 0

C7_Witness == AfterRewind /\ lastSkip > 0 /\ Absorber.fn = "recurse_loop"

\* C8: with one line per committed or skipped prompt, the lines on the
\* terminal are the committed prompts whenever a prompt is presented (one
\* more while an Undo travels), and each clear_lines call erases down to
\* the restored checkpoint, no more and no fewer.
C8_LinesMatchDepth ==
    /\ PromptPresented => lines = depth
    /\ ret.tag = "Undo" => lines = depth + 1
    /\ ret.tag = "none" => lines = depth

C8_Witness == AfterRewind /\ depth > 0 /\ lastSkip > depth /\ lines = depth

\* C9: when every prompt asked again gets the answer it got before, a build
\* with skips ends with the value the build without skips has for the same
\* answers.
C9_SkipThenRedo ==
    (Done /\ mode = "redo" /\ ret.tag \notin {"Err", "Panic"})
        => ret = Ok(Build(root, 0).val)

C9_Witness == Done /\ mode = "redo" /\ skips = MaxSkips /\ ret.tag = "Ok" /\ depth >= 3

\* C10: the array built without skips from a single item schema with
\* bounds [min, max] has at least min and at most max elements.
C10_LengthWithinBounds ==
    (Done /\ skips = 0 /\ ret.tag = "Ok" /\ Schemas[root].it = "Array")
        => /\ Len(ret.val.v) >= UnwrapOrDefault(Schemas[root].min)
           /\ \A end \in Schemas[root].max : Len(ret.val.v) <= end

\* The build of an array with a single item schema, min = 1 and max = 3 has
\* ended without a skip, and the answers to "Add element?" were taken from
\* the script yes, yes, no: two yes, and a no if it was asked a third time.
YesYesNo ==
    /\ Done /\ skips = 0 /\ ret.tag = "Ok"
    /\ Schemas[root].it = "Array" /\ Schemas[root].vec = None
    /\ Schemas[root].min = Some(1) /\ Schemas[root].max = Some(3)
    /\ LET asks == {k \in 1..Len(asked) : asked[k].kind = "add_element"}
       IN  /\ Cardinality(asks) \in {2, 3}
           /\ \E k1, k2 \in asks :
                /\ k1 < k2
                /\ tape[k1] = 1 /\ tape[k2] = 1
                /\ \A k3 \in asks \ {k1, k2} : k2 < k3 /\ tape[k3] = 0

\* C11 as stated: a uniform array with min = 1 and max = 3 and the confirm
\* answers yes, yes, no (no skips) has length 2.
C11_LengthTwo == YesYesNo => Len(ret.val.v) = 2

\* C11, amended: that array has length 3: the element below the minimum is
\* built without a confirm, and each yes adds one element.
C11_LengthThree == YesYesNo => Len(ret.val.v) = 3

C11_Witness ==
    /\ YesYesNo
    /\ Len(ret.val.v) = 3
    /\ asked[1].kind = "get_bool" /\ asked[2].kind = "add_element"

\* C12: the build of an array with a list of L item schemas never reads a
\* list position >= L, whatever min and max are, and an array it returns
\* has at most L elements, element j built from list position j.
C12_PositionalWithinList ==
    \A schemas \in Schemas[root].vec :
        /\ ret # Panicked("index out of bounds")
        /\ \A k \in 1..Len(stack) :
              (stack[k].fn = "recurse_loop" /\ stack[k].node = root /\ stack[k].pc # "call")
                  => stack[k].i < Len(schemas)
        /\ (Done /\ ret.tag = "Ok") => Len(ret.val.v) <= Len(schemas)

\* C13: when the user selects the menu entry of variant k of a oneOf node,
\* the value is built from variant k: parse_schema is called on variant k
\* when it has object structure, and the value is the first enumerated
\* literal of variant k when it is a bare enumerated constant.
C13_SelectedVariantBuilt ==
    [][ ( /\ Returned("get_subschema", "select")
          /\ ret.tag = "Ok" )
        => LET k == tape[depth]
               v == (CHOOSE subs \in Schemas[Top.node].oneOf : TRUE)[k]
           IN  IF Schemas[v].object # None
               THEN /\ Len(stack') = Len(stack) + 1
                    /\ stack'[Len(stack')].fn = "parse_schema"
                    /\ stack'[Len(stack')].node = v
               ELSE \A values \in Schemas[v].enum :
                        Len(values) > 0 => ret' = Ok(VLiteral(values[1]))
      ]_vars

\* C14: an allOf node builds its sub-schemas in declared order under the
\* node's field name, collecting the values in that order; with exactly one
\* sub-schema the result is that value itself, otherwise the sequence of
\* the values; two scalar sub-schemas give the 2-element sequence of the two
\* answers, each of its sub-schema's kind.
C14_AllOfMerge ==
    /\ [](\A subs \in Schemas[root].allOf :
            ( /\ Done /\ ret.tag = "Ok" /\ Len(subs) = 2
              /\ \A j \in 1..2 : Schemas[subs[j]].it \in ScalarTypes )
            => ret.val =
                 VArray([j \in 1..2 |->
                    PromptValue(ScalarPrompt(Schemas[subs[j]].it), subs[j], tape[j])]))
    /\ [][ /\ ( /\ Running /\ ret.tag = "none"
                /\ Top.fn = "get_subschema" /\ Top.pc = "next" )
              => LET subs == CHOOSE q \in Schemas[Top.node].allOf : TRUE
                 IN  /\ Len(Top.items) = Top.i - 1
                     /\ (Top.i <= Len(subs) /\ Schemas[subs[Top.i]].it # "Bool")
                          => /\ Len(stack') = Len(stack) + 1
                             /\ stack'[Len(stack')].fn = "parse_schema"
                             /\ stack'[Len(stack')].node = subs[Top.i]
                             /\ stack'[Len(stack')].name = Top.name
                             /\ stack'[Len(stack)].items = Top.items
                     /\ Top.i > Len(subs)
                          => /\ stack' = Pop
                             /\ ret' = Ok(IF Len(subs) = 1
                                          THEN Top.items[1]
                                          ELSE VArray(Top.items))
           /\ ( /\ Returned("get_subschema", "wait") /\ ret.tag = "Ok" )
              => /\ Len(stack') = Len(stack)
                 /\ stack'[Len(stack)].items = Append(Top.items, ret.val)
                 /\ stack'[Len(stack)].i = Top.i + 1
         ]_vars

C14_Witness ==
    /\ Done /\ ret.tag = "Ok" /\ skips > 0
    /\ \E subs \in Schemas[root].allOf : Len(subs) = 2
    /\ ret.val.t = "Array" /\ Len(ret.val.v) = 2
    /\ ret.val.v[1].t = "Bool" /\ ret.val.v[2].t = "Number"

\* The Confirm of an optional value has been answered.
OptionalAnswered ==
    /\ Running /\ ret.tag = "Ok"
    /\ Top.pc = "confirm"
    /\ Top.fn \in {"parse_schema_inner", "get_subschema"}

\* C15: an optional value (a type list with Null, or an anyOf node) first
\* asks one "Add optional value?" Confirm; on no the value is Null, with that
\* one prompt committed and no other prompt presented; on yes the builder
\* goes on with the type that is not Null, or calls parse_schema on the
\* first sub-schema of anyOf whose type is not Null.
C15_OptionalConfirm ==
    [][ /\ ( /\ Entering
             /\ \/ Schemas[Top.node].it = "Vec" /\ Schemas[Top.node].inner # "None"
                \/ /\ Schemas[Top.node].it \in {"None", "Null"}
                   /\ Schemas[Top.node].ref = None
                   /\ Schemas[Top.node].oneOf = None /\ Schemas[Top.node].allOf = None
                   /\ \E subs \in Schemas[Top.node].anyOf :
                        \E k \in 1..Len(subs) : Schemas[subs[k]].it \notin {"Null", "Bool"} )
           => /\ Len(stack') = Len(stack) + 2
              /\ stack'[Len(stack')].fn = "prompt"
              /\ stack'[Len(stack')].pc = "add_optional"
              /\ stack'[Len(stack')].name = Top.name
        /\ (OptionalAnswered /\ ret.val = VConfirm(0))
           => /\ stack' = Pop
              /\ ret' = Ok(VNull)
              /\ depth' = depth
              /\ stack[Len(stack) - 1].fn = "parse_schema"
              /\ depth = stack[Len(stack) - 1].cp + 1
        /\ (OptionalAnswered /\ ret.val = VConfirm(1) /\ Top.fn = "parse_schema_inner")
           => /\ stack' = SetTop([Top EXCEPT !.pc = "gsi"])
              /\ ret'.tag = "none"
        /\ ( /\ Running /\ ret.tag = "none"
             /\ Top.fn = "parse_schema_inner" /\ Top.pc = "gsi"
             /\ Schemas[Top.node].inner \in ScalarTypes )
           => /\ stack'[Len(stack')].fn = "prompt"
              /\ stack'[Len(stack')].pc = ScalarPrompt(Schemas[Top.node].inner)
        /\ (OptionalAnswered /\ ret.val = VConfirm(1) /\ Top.fn = "get_subschema")
           => LET subs == CHOOSE q \in Schemas[Top.node].anyOf : TRUE
                  k == CHOOSE m \in 1..Len(subs) :
                          /\ Schemas[subs[m]].it # "Null"
                          /\ \A j \in 1..(m - 1) : Schemas[subs[j]].it = "Null"
              IN  /\ Len(stack') = Len(stack) + 1
                  /\ stack'[Len(stack')].fn = "parse_schema"
                  /\ stack'[Len(stack')].node = subs[k]
                  /\ stack'[Len(stack')].name = Top.name
      ]_vars

C15_Witness ==
    /\ Running /\ ret = Ok(VNull)
    /\ Top.fn = "parse_schema" /\ Top.pc = "wait"
    /\ Schemas[Top.node].anyOf # None
    /\ depth = Top.cp + 1 /\ depth >= 2

\* The declared properties of node n, in schema order.
Declared(n) == CHOOSE props \in Schemas[n].object : TRUE

\* C16: get_object builds the declared properties in schema order, each by
\* one parse_schema call with the property name as field name, and the
\* mapping it returns has exactly one entry per declared property, in that
\* order; without skips each property of an object of scalars is prompted
\* exactly once, in that order, under its name.
C16_ObjectInOrder ==
    /\ \A k \in 1..Len(stack) :
          stack[k].fn = "get_object" =>
            LET f == stack[k]
                props == Declared(f.node)
            IN  /\ Len(f.items) = f.i - 1
                /\ f.i <= Len(props) + 1
                /\ \A j \in 1..Len(f.items) : f.items[j][1] = props[j][1]
                /\ (f.pc = "wait" /\ k < Len(stack))
                     => /\ stack[k + 1].fn = "parse_schema"
                        /\ stack[k + 1].name = props[f.i][1]
                        /\ stack[k + 1].node = props[f.i][2]
    /\ (Done /\ ret.tag = "Ok" /\ Schemas[root].it = "Object")
         => /\ ret.val.t = "Object"
            /\ Len(ret.val.v) = Len(Declared(root))
            /\ \A j \in 1..Len(ret.val.v) : ret.val.v[j][1] = Declared(root)[j][1]
    /\ ( /\ skips = 0 /\ Schemas[root].it = "Object"
         /\ \A j \in 1..Len(Declared(root)) :
               Schemas[Declared(root)[j][2]].it \in ScalarTypes )
         => /\ Len(asked) <= Len(Declared(root))
            /\ \A j \in 1..Len(asked) :
                  /\ asked[j].name = Declared(root)[j][1]
                  /\ asked[j].kind = ScalarPrompt(Schemas[Declared(root)[j][2]].it)
            /\ (Done /\ ret.tag = "Ok") => Len(asked) = Len(Declared(root))

C16_Witness ==
    /\ Done /\ ret.tag = "Ok" /\ skips = 0
    /\ Schemas[root].it = "Object"
    /\ Len(ret.val.v) = 3
    /\ Len(asked) = 3 /\ asked[2].kind = "get_string"

\* C17: an error that is not Undo (a failed prompt, a boolean schema) is
\* returned unchanged by the parse_schema frame or the recurse_loop frame it
\* reaches, and by every frame between it and the caller of the build:
\* nothing is attempted again, the depth is not reset and no line is erased.
C17_ErrorsPassThrough ==
    [][ /\ ( /\ Running /\ ret.tag = "Err"
             /\ Top.fn \in {"parse_schema", "recurse_loop"} )
           => /\ stack' = Pop
              /\ ret' = ret
              /\ depth' = depth /\ lines' = lines /\ erases' = erases
        /\ ret.tag = "Err"
           => /\ ret' = ret
              /\ Len(stack') < Len(stack)
              /\ depth' = depth /\ lines' = lines /\ erases' = erases
      ]_vars

C17_Witness ==
    /\ Done /\ ret = Err("SchemaIsBool")
    /\ Schemas[root].it = "Array"
    /\ depth >= 2 /\ erases > 0

\* C18: a malformed composition (a node with none of oneOf, allOf, anyOf, or
\* a chosen variant with neither object structure nor enumerated values)
\* and an unresolved reference end the build with an error value returned
\* to the caller: the build never ends in a panic of the thread for them.
C18_MalformedIsError ==
    \A msg \in {"invalid schema", "unwrap on None"} : ret # Panicked(msg)

\* C19: a cycle of references with no prompt in between is detected and
\* rejected: parse_schema is never entered again for a reference it is
\* already resolving at the same depth, and the stack is never used up.
C19_CycleRejected ==
    /\ ret # Panicked("stack overflow")
    /\ \A j, k \in 1..Len(stack) :
          ( /\ j < k
            /\ stack[j].fn = "parse_schema" /\ stack[k].fn = "parse_schema"
            /\ stack[j].pc = "wait" /\ stack[k].pc \in {"inner", "wait"}
            /\ Schemas[stack[j].node].ref # None )
          => ~(stack[j].node = stack[k].node /\ stack[j].cp = stack[k].cp)

\* C20: a skipped prompt returns Undo{depth: d} with d the depth at the
\* skip, which the skip leaves alone; while the signal travels up, the depth
\* it carries is the current depth.
C20_UndoCarriesDepth ==
    /\ [](ret.tag = "Undo" => ret.depth = depth)
    /\ [][ /\ Skip => (ret' = ErrUndo(depth) /\ depth' = depth)
           /\ (ret.tag = "Undo" /\ ret'.tag = "Undo") => (ret' = ret /\ depth' = depth)
         ]_vars

C20_Witness ==
    /\ Running /\ ret.tag = "Undo"
    /\ Top.fn = "recurse_loop" /\ Top.pc = "f"
    /\ ret.depth = depth /\ depth >= 2
    /\ Top.cp = ret.depth

\* C21: a recurse_loop frame at index i holds exactly the i elements built
\* for the indices below i; when it absorbs a rewind it re-attempts at the
\* same index with those same elements, each further iteration appends one
\* element to them, and the array returned is the elements of the frame that
\* ends the loop: nothing built in a discarded attempt is in it.
C21_AccumulatorRestored ==
    /\ [](\A k \in 1..Len(stack) :
            stack[k].fn = "recurse_loop" =>
              /\ Len(stack[k].items) = stack[k].i
              /\ (stack[k].pc = "tail" /\ k < Len(stack)) =>
                    /\ stack[k + 1].fn = "recurse_loop"
                    /\ stack[k + 1].i = stack[k].i
                    /\ stack[k + 1].items = stack[k].items
              /\ (stack[k].pc = "wait" /\ k < Len(stack)) =>
                    /\ stack[k + 1].fn = "recurse_loop"
                    /\ stack[k + 1].i = stack[k].i + 1
                    /\ SubSeq(stack[k + 1].items, 1, stack[k].i) = stack[k].items)
    /\ [][ /\ ( /\ Running /\ Top.fn = "recurse_loop" /\ Top.pc \in {"f", "wait"}
                /\ ret.tag = "Undo" /\ ret.depth > Top.cp )
              => /\ Len(stack') = Len(stack) + 1
                 /\ stack'[Len(stack')].fn = "recurse_loop"
                 /\ stack'[Len(stack')].i = Top.i
                 /\ stack'[Len(stack')].items = Top.items
                 /\ stack'[Len(stack')].node = Top.node
           /\ ( /\ Returned("recurse_loop", "f")
                /\ ret.tag = "Ok" /\ ret.val.t = "Return" )
              => ret' = Ok(VVec(Top.items))
         ]_vars

C21_Witness ==
    /\ Len(stack) >= 2 /\ ret.tag = "none"
    /\ Top.fn = "recurse_loop" /\ Top.i >= 1
    /\ stack[Len(stack) - 1].fn = "recurse_loop"
    /\ stack[Len(stack) - 1].pc = "tail"
    /\ Top.items = stack[Len(stack) - 1].items
    /\ lastSkip > depth

\* C22: a recurse_loop frame with checkpoint c that receives Undo{depth: t}
\* absorbs it exactly when t > c: it sets the depth to c, erases t - c + 1
\* lines and runs the same index again. When t <= c, a checkpoint of 0
\* included, it returns the same Undo{depth: t} and changes nothing, so a
\* skip of the first prompt of iteration 0 that reaches the loop frame
\* leaves the loop. It does not reach it when the depth is 0 and the prompt
\* is asked under a parse_schema frame inside the iteration: that frame,
\* its checkpoint 0, absorbs the rewind and the iteration goes on.
C22_LoopAbsorbsAbove ==
  /\ [](AfterRewind =>
          \A k \in FirstOfLoop :
            IF lastSkip = 0 /\ \E j \in (k + 1)..Len(skipStack) :
                                  skipStack[j].fn = "parse_schema"
            THEN AbsorberAt > k /\ stack[AbsorberAt].fn = "parse_schema"
                                /\ stack[AbsorberAt].cp = 0
            ELSE AbsorberAt < k)
  /\
    [][ ( /\ Running /\ Top.fn = "recurse_loop" /\ Top.pc \in {"f", "wait"}
          /\ ret.tag = "Undo" )
        => IF ret.depth > Top.cp
           THEN /\ depth' = Top.cp
                /\ erases' = erases + 1
                /\ lines' = lines - (ret.depth - Top.cp + 1)
                /\ Len(stack') = Len(stack) + 1
                /\ stack'[Len(stack)] = [Top EXCEPT !.pc = "tail"]
                /\ stack'[Len(stack')].fn = "recurse_loop"
                /\ stack'[Len(stack')].i = Top.i
                /\ stack'[Len(stack')].cp = Top.cp
                /\ ret'.tag = "none"
           ELSE /\ stack' = Pop
                /\ ret' = ret
                /\ depth' = depth
                /\ lines' = lines
                /\ erases' = erases
      ]_vars

C22_Witness ==
    /\ AfterRewind /\ lastSkip > 0
    /\ \E k \in FirstOfLoop : AbsorberAt < k
    /\ depth < lastSkip

\* C22 as stated, its last part: a skip of the first prompt of iteration 0
\* always leaves the array loop, that is, no frame of the loop or inside it
\* absorbs the rewind.
C22_FirstSkipLeavesLoop ==
    AfterRewind => \A k \in FirstOfLoop : AbsorberAt < k

C24_CheckpointBelowDepth ==
    /\ [](/\ depth < U16
          /\ \A k \in 1..Len(stack) :
                stack[k].fn \in {"parse_schema", "recurse_loop"} =>
                  /\ 0 <= stack[k].cp
                  /\ stack[k].cp <= depth
                  /\ ret.tag = "Undo" => ret.depth >= stack[k].cp)
    /\ [][ erases' # erases =>
             /\ ret.tag = "Undo"
             /\ Top.fn \in {"parse_schema", "recurse_loop"}
             /\ ret.depth - Top.cp >= 0
             /\ ret.depth - Top.cp + 1 < U16
             /\ lines - lines' = ret.depth - Top.cp + 1
             /\ lines - lines' >= 1
         ]_vars

C24_Witness ==
    /\ Running /\ ret.tag = "Undo"
    /\ Top.fn \in {"parse_schema", "recurse_loop"} /\ Top.pc \in {"wait", "f"}
    /\ Top.cp > 0
    /\ ret.depth - Top.cp >= 2
    /\ erases > 0

\* C25: whatever was skipped and whatever is answered afterwards, a build
\* that returns a value has kept exactly one answer for each committed
\* prompt, and the value is the one the build without skips has for those
\* answers, all of them read and nothing else: no answer of a discarded
\* attempt is in it.
C25_NoLeak ==
    (Done /\ ret.tag = "Ok")
        => /\ Len(tape) = depth
           /\ Len(asked) = depth
           /\ Build(root, 0) = [val |-> ret.val, pos |-> depth]

C25_Witness ==
    /\ Done /\ ret.tag = "Ok"
    /\ mode = "free" /\ skips = MaxSkips /\ erases = MaxSkips
    /\ Schemas[root].it = "Array"
    /\ Len(ret.val.v) >= 2
    /\ depth >= 3

\* A chain of references from node n leads to the node target.
RECURSIVE RefReaches(_, _, _)
RefReaches(n, target, fuel) ==
    /\ fuel > 0
    /\ Schemas[n].it = "None"
    /\ \E reference \in Schemas[n].ref :
        /\ reference \in DOMAIN Definitions
        /\ \/ Definitions[reference] = target
           \/ RefReaches(Definitions[reference], target, fuel - 1)
Acyclic(n) == ~RefReaches(n, n, Len(Schemas))

=============================================================================
